---- MODULE Spec2Model ----
(***************************************************************************)
(* Model of app.py, the interactive shark taxonomy tool.                   *)
(*                                                                         *)
(* A taxon name is a sequence of words, so that the derived column         *)
(* Full_Species = Genus + " " + Species is the concatenation of the two    *)
(* word sequences.  A table (DataFrame) is a sequence of rows; every row   *)
(* carries its pandas index in the field "index", which filtering keeps.   *)
(* A selection list is modelled by the set of its elements.                *)
(***************************************************************************)
EXTENDS Integers, Sequences, FiniteSets, TLC

VARIABLES
    df,              \* the table returned by load_data()
    session_state,   \* st.session_state, a dict from keys to values
    presets,         \* the files of PRESET_DIR: preset name -> stored dict
    shown,           \* what the last script run put on the page
    final_df,        \* render block: the table returned by apply_filters
    total_visible,   \* render block: the result of count_visible_species
    dot,             \* render block: the Digraph built by the tree builder
    ev,              \* the kind of interaction that started the last run
    at_filters,      \* after a preset was applied: the session values right
                     \* after the filter UI loop of that run
    saved_from       \* preset name -> session values when it was saved

vars == <<df, session_state, presets, shown, final_df, total_visible, dot,
          ev, at_filters, saved_from>>

----------------------------------------------------------------------------
(* Configuration of the script *)

LEVELS == <<"Class", "Subclass", "Order", "Family", "Genus", "Species">>

LevelSet == {LEVELS[i] : i \in 1..Len(LEVELS)}

DefaultTitle == "Shark Phylogeny"

LargeTreeLimit == 50

None == [none |-> TRUE]

\* f"sel_{lvl.lower()}"
SelKey(lvl) ==
    CASE lvl = "Class"    -> "sel_class"
      [] lvl = "Subclass" -> "sel_subclass"
      [] lvl = "Order"    -> "sel_order"
      [] lvl = "Family"   -> "sel_family"
      [] lvl = "Genus"    -> "sel_genus"
      [] lvl = "Species"  -> "sel_species"

\* f"all_{lvl.lower()}"
AllKey(lvl) ==
    CASE lvl = "Class"    -> "all_class"
      [] lvl = "Subclass" -> "all_subclass"
      [] lvl = "Order"    -> "all_order"
      [] lvl = "Family"   -> "all_family"
      [] lvl = "Genus"    -> "all_genus"
      [] lvl = "Species"  -> "all_species"

\* LEVELS.index(l)
LevelIndex(l) == CHOOSE i \in 1..Len(LEVELS) : LEVELS[i] = l

----------------------------------------------------------------------------
(* Dictionaries and tables *)

\* d.get(k, default)
Get(d, k, default) == IF k \in DOMAIN d THEN d[k] ELSE default

\* d[k] = v
Put(d, k, v) == [x \in (DOMAIN d) \cup {k} |-> IF x = k THEN v ELSE d[x]]

Range(s) == {s[i] : i \in 1..Len(s)}

\* Only({e(x) : x \in {v}}) is e(v) with v computed once, as an assignment
\* x = v followed by e(x) is in the script
Only(S) == CHOOSE x \in S : TRUE

\* one row of the spreadsheet, before load_data adds Full_Species
RawRow(i, c, s, o, f, g, sp) ==
    [index |-> i, Class |-> c, Subclass |-> s, Order |-> o, Family |-> f,
     Genus |-> g, Species |-> sp]

\* df["Full_Species"] = df["Genus"] + " " + df["Species"]
load_data(raw) ==
    [k \in 1..Len(raw) |->
        [index |-> raw[k].index, Class |-> raw[k].Class,
         Subclass |-> raw[k].Subclass, Order |-> raw[k].Order,
         Family |-> raw[k].Family, Genus |-> raw[k].Genus,
         Species |-> raw[k].Species,
         Full_Species |-> raw[k].Genus \o raw[k].Species]]

\* the column a level's selection is matched against in the filter code
FilterColumn(lvl) == IF lvl = "Species" THEN "Full_Species" ELSE lvl

\* tbl[tbl[col].isin(values)]
IsIn(tbl, col, values) ==
    LET Keep(r) == r[col] \in values IN SelectSeq(tbl, Keep)

\* tbl[tbl[col] == item]
Eq(tbl, col, item) ==
    LET Keep(r) == r[col] = item IN SelectSeq(tbl, Keep)

\* set(tbl[col])
Values(tbl, col) == {tbl[k][col] : k \in 1..Len(tbl)}

\* the positions of tbl, in order, that hold the first occurrence of their
\* value in column col
FirstPositions(tbl, col) ==
    LET IsFirst(k) == \A j \in 1..(k - 1) : tbl[j][col] # tbl[k][col]
    IN  SelectSeq([k \in 1..Len(tbl) |-> k], IsFirst)

\* tbl[col].unique(): the distinct values in first-seen order
Unique(tbl, col) ==
    Only({[i \in 1..Len(ks) |-> t[ks[i]][col]] :
           <<t, ks>> \in {<<tbl, FirstPositions(tbl, col)>>}})

----------------------------------------------------------------------------
(* FILTER LOGIC *)

\* apply_filters: only the top-most non-empty selection filters the table
RECURSIVE apply_filters_from(_, _, _)
apply_filters_from(ss, tbl, i) ==
    IF i > Len(LEVELS) THEN tbl
    ELSE IF ss[SelKey(LEVELS[i])] # {}
         THEN IsIn(tbl, FilterColumn(LEVELS[i]), ss[SelKey(LEVELS[i])])
         ELSE apply_filters_from(ss, tbl, i + 1)

\* tbl.reset_index(drop=True): the rows are renumbered from 0
reset_index(tbl) ==
    [k \in 1..Len(tbl) |-> [tbl[k] EXCEPT !.index = k - 1]]

\* apply_filters with the index of the result renumbered
apply_filters_reset_index(ss, tbl) ==
    reset_index(apply_filters_from(ss, tbl, 1))

apply_filters(ss, tbl) == apply_filters_from(ss, tbl, 1)

----------------------------------------------------------------------------
(* ACTIVE LEVELS SELECTOR: the contiguity check *)

\* idx = [LEVELS.index(l) for l in active]
Idx(active) == [k \in 1..Len(active) |-> LevelIndex(active[k])]

MinOf(s) == CHOOSE x \in Range(s) : \A y \in Range(s) : x <= y
MaxOf(s) == CHOOSE x \in Range(s) : \A y \in Range(s) : x >= y

\* list(range(lo, hi + 1))
RangeList(lo, hi) == [k \in 1..(hi - lo + 1) |-> lo + k - 1]

\* a contiguity check that compares the positions as sets
NotContiguousUnordered(active) ==
    LET idx == Idx(active) IN
    /\ idx # << >>
    /\ Range(idx) # Range(RangeList(MinOf(idx), MaxOf(idx)))

\* idx and idx != list(range(min(idx), max(idx) + 1))
NotContiguous(active) ==
    LET idx == Idx(active) IN
    /\ idx # << >>
    /\ idx # RangeList(MinOf(idx), MaxOf(idx))

----------------------------------------------------------------------------
(* TREE CONSTRUCTION *)

\* Digraph(graph_attr={..., "label": chart_title}); drawn_nodes = set()
EmptyGraph(chart_title) ==
    [label |-> chart_title, nodes |-> << >>, edges |-> << >>, drawn |-> {}]

\* node_id = f"{lvl}_{item}": the level names are fixed, so the pair of the
\* level and the item determines the string and the string the pair
NodeId(lvl, item) == <<lvl, item>>

\* the rows under item, ignoring the selection of the next level
ChildDfUnpruned(ss, current_df, lvl, item, next_lvl) ==
    Eq(current_df, lvl, item)

\* child_df of add_branch: the rows under item, pruned by the selection of
\* the next level when there is one
ChildDf(ss, current_df, lvl, item, next_lvl) ==
    LET next_sel == Get(ss, SelKey(next_lvl), {}) IN
    IF next_sel = {} THEN Eq(current_df, lvl, item)
    ELSE IsIn(Eq(current_df, lvl, item), FilterColumn(next_lvl), next_sel)

\* dot.node(node_id, label, ...) unless node_id is in drawn_nodes
DrawNode(g, ss, current_df, lvl, item) ==
    LET node_id == NodeId(lvl, item)
        row == Head(Eq(current_df, "Species", item))
        label == IF lvl = "Species" THEN row.Full_Species ELSE item
        hl == /\ lvl = "Species"
              /\ row.Full_Species \in ss.highlighted_species
    IN  IF node_id \in g.drawn THEN g
        ELSE [g EXCEPT
                !.nodes = Append(@, [id |-> node_id, label |-> label,
                                     italic |-> (lvl = "Species"),
                                     highlighted |-> hl]),
                !.drawn = @ \cup {node_id}]

\* for next_item in child_df[next_lvl].unique(): dot.edge(node_id, next_id)
DrawEdges(g, node_id, child_df, next_lvl) ==
    LET items == Unique(child_df, next_lvl) IN
    [g EXCEPT !.edges =
        @ \o [k \in 1..Len(items) |-> <<node_id, NodeId(next_lvl, items[k])>>]]

RECURSIVE add_branch(_, _, _, _, _)

\* the rest of the loop body once child_df is known: the edges to the
\* children and the recursive call, both skipped when child_df is empty
add_children(g, ss, active_levels, child_df, level_idx, item) ==
    IF child_df = << >> THEN g
    ELSE add_branch(
           DrawEdges(g, NodeId(active_levels[level_idx], item), child_df,
                     active_levels[level_idx + 1]),
           ss, active_levels, child_df, level_idx + 1)

\* the body of "for item in items" for one item
add_item(g, ss, active_levels, current_df, level_idx, item) ==
    IF level_idx + 1 > Len(active_levels)
    THEN DrawNode(g, ss, current_df, active_levels[level_idx], item)
    ELSE Only({add_children(g1, ss, active_levels, child_df, level_idx, item) :
                g1 \in {DrawNode(g, ss, current_df, active_levels[level_idx], item)},
                child_df \in {ChildDf(ss, current_df, active_levels[level_idx],
                                      item, active_levels[level_idx + 1])}})

\* "for item in items" from items[k] on
RECURSIVE add_items(_, _, _, _, _, _, _)
add_items(g, ss, active_levels, current_df, level_idx, items, k) ==
    IF k > Len(items) THEN g
    ELSE Only({add_items(g1, ss, active_levels, current_df, level_idx, items, k + 1) :
                g1 \in {add_item(g, ss, active_levels, current_df, level_idx,
                                 items[k])}})

\* add_branch(current_df, level_idx), with level_idx counted from 1
add_branch(g, ss, active_levels, current_df, level_idx) ==
    IF level_idx > Len(active_levels) THEN g
    ELSE Only({add_items(g0, ss, active_levels, current_df, level_idx, items, 1) :
                g0 \in {g},
                items \in {Unique(current_df, active_levels[level_idx])}})

build_horizontal_taxonomic_tree(ss, tbl, active_levels, chart_title) ==
    LET g == add_branch(EmptyGraph(chart_title), ss, active_levels, tbl, 1)
    IN  [label |-> g.label, nodes |-> g.nodes, edges |-> g.edges]

----------------------------------------------------------------------------
(* THE DIAGNOSTIC POP-UP FUNCTION *)

\* active_levels.index(lvl)
IndexIn(active_levels, lvl) ==
    CHOOSE k \in 1..Len(active_levels) :
        /\ active_levels[k] = lvl
        /\ \A j \in 1..(k - 1) : active_levels[j] # lvl

\* current_df after one pass of the loop body for active_levels[k]
count_step(ss, current_df, active_levels, k) ==
    LET next_lvl == active_levels[IndexIn(active_levels, active_levels[k]) + 1]
        sel == Get(ss, SelKey(next_lvl), {})
    IN  IF sel # {} THEN IsIn(current_df, next_lvl, sel) ELSE current_df

\* the loop "for lvl in active_levels" from position k on
RECURSIVE count_loop(_, _, _, _)
count_loop(ss, current_df, active_levels, k) ==
    IF k > Len(active_levels) THEN current_df
    ELSE IF active_levels[k] = "Species" THEN current_df
    ELSE Only({count_loop(ss, c, active_levels, k + 1) :
                c \in {count_step(ss, current_df, active_levels, k)}})

count_visible_species(ss, tbl, active_levels) ==
    IF "Species" \notin Range(active_levels) THEN 0
    ELSE Len(count_loop(ss, tbl, active_levels, 1))

----------------------------------------------------------------------------
(* SESSION STATE INITIALIZATION *)

\* the setdefault calls.  confirmed_large_tree is not set by them: until the
\* render block or the dialog assigns it, get() reads None, which is false
Defaults ==
    [sel_class |-> {}, sel_subclass |-> {}, sel_order |-> {},
     sel_family |-> {}, sel_genus |-> {}, sel_species |-> {},
     all_class |-> FALSE, all_subclass |-> FALSE, all_order |-> FALSE,
     all_family |-> FALSE, all_genus |-> FALSE, all_species |-> FALSE,
     active_levels |-> LEVELS,
     chart_title |-> DefaultTitle,
     render_requested |-> FALSE,
     tree_valid |-> FALSE,
     pending_preset |-> None,
     highlighted_species |-> {},
     confirmed_large_tree |-> FALSE]

----------------------------------------------------------------------------
(* Callbacks *)

SelKeys == {SelKey(l) : l \in LevelSet}
AllKeys == {AllKey(l) : l \in LevelSet}

invalidate_tree(ss) ==
    [ss EXCEPT !.tree_valid = FALSE, !.render_requested = FALSE]

reset_all_filters_callback(ss) ==
    invalidate_tree(
        [k \in DOMAIN ss |->
            CASE k \in SelKeys -> {}
              [] k \in AllKeys -> FALSE
              [] k = "highlighted_species" -> {}
              [] OTHER -> ss[k]])

----------------------------------------------------------------------------
(* APPLY PENDING PRESET *)

\* the block without the reset of tree_valid and render_requested
ApplyPendingPresetKeepTree(ss) ==
    IF ss.pending_preset = None THEN ss
    ELSE LET preset == ss.pending_preset IN
         [k \in DOMAIN ss |->
            CASE k = "chart_title" -> Get(preset, k, DefaultTitle)
              [] k = "active_levels" -> Get(preset, k, LEVELS)
              [] k \in SelKeys -> Get(preset, k, {})
              [] k \in AllKeys -> Get(preset, k, FALSE)
              [] k = "pending_preset" -> None
              [] OTHER -> ss[k]]

ApplyPendingPreset(ss) ==
    IF ss.pending_preset = None THEN ss
    ELSE LET preset == ss.pending_preset IN
         [k \in DOMAIN ss |->
            CASE k = "chart_title" -> Get(preset, k, DefaultTitle)
              [] k = "active_levels" -> Get(preset, k, LEVELS)
              [] k \in SelKeys -> Get(preset, k, {})
              [] k \in AllKeys -> Get(preset, k, FALSE)
              [] k \in {"tree_valid", "render_requested"} -> FALSE
              [] k = "pending_preset" -> None
              [] OTHER -> ss[k]]

----------------------------------------------------------------------------
(* FILTER UI *)

\* What st.multiselect leaves in session_state[key].  The value is kept when
\* it is among the options and the widget is the one of the previous run, or
\* the script assigned the key in this run.  The script does not decide what
\* happens to a value when the options of a keyed widget change: the
\* framework either starts a new widget with the default [] whenever the
\* options differ, or keeps the part of the value that is still among the
\* options.
WidgetPolicies == {"reset_on_change", "keep_valid"}

multiselect(value, opts, prev_opts, scripted, pol) ==
    IF value \subseteq opts
    THEN IF scripted \/ opts = prev_opts \/ pol # "reset_on_change"
         THEN value ELSE {}
    ELSE IF pol = "keep_valid" THEN value \cap opts ELSE {}

\* working_df narrowed by the selection of one level
Narrow(working_df, lvl, sel) ==
    IF sel # {} THEN IsIn(working_df, FilterColumn(lvl), sel) ELSE working_df

\* one pass of the loop "for i, lvl in enumerate(LEVELS)": x holds the
\* session (ss), working_df, and the table the previous run had narrowed to
\* at this level (prev_df), which gives the options the widget had then
FilterStep(x, prev_ss, scripted, pol, lvl) ==
    Only({[ss |-> [x.ss EXCEPT ![SelKey(lvl)] = sel],
           working_df |-> Narrow(x.working_df, lvl, sel),
           prev_df |-> Narrow(x.prev_df, lvl, prev_ss[SelKey(lvl)])] :
         sel \in {Only({multiselect(
                           IF x.ss[AllKey(lvl)] THEN opts ELSE x.ss[SelKey(lvl)],
                           opts, Values(x.prev_df, FilterColumn(lvl)),
                           scripted \/ x.ss[AllKey(lvl)], pol) :
                        opts \in {Values(x.working_df, FilterColumn(lvl))}})}})

\* the loop from level i on
RECURSIVE FilterLoop(_, _, _, _, _)
FilterLoop(x, prev_ss, scripted, pol, i) ==
    IF i > Len(LEVELS) THEN x
    ELSE Only({FilterLoop(y, prev_ss, scripted, pol, i + 1) :
                y \in {FilterStep(x, prev_ss, scripted, pol, LEVELS[i])}})

\* the values a preset stores, as the session holds them
Snapshot(ss) ==
    [k \in {"chart_title", "active_levels"} \cup SelKeys \cup AllKeys |-> ss[k]]

\* the sidebar down to the highlight widget, after the filter loop left f
Highlight(f, ss0, e, pol) ==
    [ss |-> [f.ss EXCEPT !.highlighted_species =
                multiselect(@, Values(f.working_df, "Full_Species"),
                            Values(f.prev_df, "Full_Species"),
                            e.kind = "reset", pol)],
     at_filters |-> IF ss0.pending_preset = None THEN None
                    ELSE [snapshot |-> Snapshot(f.ss),
                          pending_preset |-> f.ss.pending_preset]]

\* the script from the pending preset block to the highlight widget of the
\* sidebar
Top(prev_ss, ss0, e, pol) ==
    Only({Highlight(f, ss0, e, pol) :
           f \in {FilterLoop([ss |-> ApplyPendingPreset(ss0),
                              working_df |-> df, prev_df |-> df],
                             prev_ss,
                             ss0.pending_preset # None \/ e.kind = "reset",
                             pol, 1)}})

----------------------------------------------------------------------------
(* SIDEBAR: presets *)

\* the dict written by Save Preset without the select-all flags
SavePresetDataNoFlags(ss) ==
    [k \in {"chart_title", "active_levels"} \cup SelKeys |-> ss[k]]

\* data of "Save Preset"; json.dump and json.load return the strings, lists
\* and booleans of the dict unchanged
SavePresetData(ss) ==
    [k \in {"chart_title", "active_levels"} \cup SelKeys \cup AllKeys |-> ss[k]]

----------------------------------------------------------------------------
(* RENDER TREE BLOCK *)

\* the block from the size check on, without the reset of
\* confirmed_large_tree on its last line
RenderCountedKeepConfirmed(ss, final, total) ==
    IF total > LargeTreeLimit /\ ~Get(ss, "confirmed_large_tree", FALSE)
    THEN [ss |-> ss, shown |-> "warning", final_df |-> final,
          total_visible |-> total, dot |-> None]
    ELSE [ss |-> ss,
          shown |-> "tree", final_df |-> final, total_visible |-> total,
          dot |-> build_horizontal_taxonomic_tree(
                     ss, final, ss.active_levels, ss.chart_title)]

\* the block from the size check on: the dialog and st.stop() ("warning"),
\* or the tree on the page and confirmed_large_tree = False ("tree")
RenderCounted(ss, final, total) ==
    IF total > LargeTreeLimit /\ ~Get(ss, "confirmed_large_tree", FALSE)
    THEN [ss |-> ss, shown |-> "warning", final_df |-> final,
          total_visible |-> total, dot |-> None]
    ELSE [ss |-> Put(ss, "confirmed_large_tree", FALSE),
          shown |-> "tree", final_df |-> final, total_visible |-> total,
          dot |-> build_horizontal_taxonomic_tree(
                     ss, final, ss.active_levels, ss.chart_title)]

\* "if not final_df.empty:" has no else: an empty final_df leaves the page
\* without tree and without any message ("empty")
RenderFiltered(ss, final) ==
    IF final = << >>
    THEN [ss |-> ss, shown |-> "empty", final_df |-> final,
          total_visible |-> None, dot |-> None]
    ELSE Only({RenderCounted(ss, final, total) :
                total \in {count_visible_species(ss, final, ss.active_levels)}})

RenderBlock(ss) ==
    IF ~(ss.render_requested /\ ss.tree_valid)
    THEN [ss |-> ss, shown |-> "no_render", final_df |-> None,
          total_visible |-> None, dot |-> None]
    ELSE Only({RenderFiltered(ss, final) : final \in {apply_filters(ss, df)}})

----------------------------------------------------------------------------
(* One run of the script *)

NoEvent == [kind |-> "none"]

\* the value of "Taxonomic levels to show": the multiselect has no key; it
\* shows the user's choice or its default, the active_levels of the session
Active(ss, e) == IF e.kind = "levels" THEN e.value ELSE ss.active_levels

\* the "Generate Scientific Tree" button
GenerateButton(ss, e) ==
    IF e.kind = "generate"
    THEN [ss EXCEPT !.render_requested = TRUE, !.tree_valid = TRUE]
    ELSE ss

\* the script from the active levels selector to its end without the
\* contiguity check
LevelsUnchecked(ss, e) ==
    RenderBlock(GenerateButton([ss EXCEPT !.active_levels = Active(ss, e)], e))

\* the script from the active levels selector to its end: the contiguity
\* check stops the run ("contig_error") before the Generate button
Levels(ss, e) ==
    IF NotContiguous(Active(ss, e))
    THEN [ss |-> [ss EXCEPT !.active_levels = Active(ss, e)],
          shown |-> "contig_error", final_df |-> None,
          total_visible |-> None, dot |-> None]
    ELSE RenderBlock(
           GenerateButton([ss EXCEPT !.active_levels = Active(ss, e)], e))

\* the script from "Save Preset" to its end, after Top left top
Bottom(top, e, pr, sf) ==
    Only({[ss |-> r.ss,
           presets |-> IF e.kind = "save"
                       THEN Put(pr, e.name, SavePresetData(top.ss)) ELSE pr,
           saved_from |-> IF e.kind = "save"
                          THEN Put(sf, e.name, Snapshot(top.ss)) ELSE sf,
           at_filters |-> top.at_filters, shown |-> r.shown,
           final_df |-> r.final_df, total_visible |-> r.total_visible,
           dot |-> r.dot] :
         r \in {Levels(top.ss, e)}})

\* A run that is not cut short by st.rerun(): e is the interaction that
\* started it, ss0 the session after the callbacks of that interaction,
\* prev_ss the session of the previous run, pr the preset files.
Body(prev_ss, ss0, e, pr, sf, pol) ==
    Only({Bottom(top, e, pr, sf) : top \in {Top(prev_ss, ss0, e, pol)}})

\* Load and Delete end their run with st.rerun() in the sidebar: what the
\* run that follows starts from.  That run has no interaction of its own.
Rerun(top, e, pr) ==
    [prev_ss |-> top.ss,
     ss0 |-> IF e.kind = "load"
             THEN [top.ss EXCEPT !.pending_preset = pr[e.name]] ELSE top.ss,
     e |-> NoEvent,
     pr |-> IF e.kind = "delete"
            THEN [n \in (DOMAIN pr) \ {e.name} |-> pr[n]] ELSE pr]

\* the runs an interaction starts
Script(prev_ss, ss0, e, pr, sf, pol) ==
    Only({Body(a.prev_ss, a.ss0, a.e, a.pr, sf, pol) :
           a \in {IF e.kind \in {"load", "delete"}
                  THEN Rerun(Top(prev_ss, ss0, e, pol), e, pr)
                  ELSE [prev_ss |-> prev_ss, ss0 |-> ss0, e |-> e, pr |-> pr]}})

\* the options the filter widget of a level shows on the current page
OptionsShown(lvl) ==
    LET RECURSIVE W(_)
        W(i) == IF i = 0 THEN df
                ELSE Narrow(W(i - 1), LEVELS[i], session_state[SelKey(LEVELS[i])])
    IN  Values(W(LevelIndex(lvl) - 1), FilterColumn(lvl))

\* the options of the highlight widget on the current page
SpeciesShown ==
    LET RECURSIVE W(_)
        W(i) == IF i = 0 THEN df
                ELSE Narrow(W(i - 1), LEVELS[i], session_state[SelKey(LEVELS[i])])
    IN  Values(W(Len(LEVELS)), "Full_Species")

\* the number of settings that differ from those of a fresh session
Customised(ss) ==
    Cardinality({l \in LevelSet : ss[AllKey(l)]})
    + Cardinality({l \in LevelSet : ss[SelKey(l)] # {} /\ ~ss[AllKey(l)]})
    + (IF ss.chart_title # DefaultTitle THEN 1 ELSE 0)
    + (IF ss.highlighted_species # {} THEN 1 ELSE 0)
    + (IF ss.active_levels # LEVELS THEN 1 ELSE 0)

MaxCustom == 1

\* the outcomes of the runs an interaction starts: e is the interaction and
\* ss0 the session after its callbacks.  The user keeps at most MaxCustom
\* settings away from their defaults.
Runs(ss0, e) ==
    {r \in {Script(session_state, ss0, e, presets, saved_from, pol) :
              pol \in WidgetPolicies} :
        Customised(r.ss) <= MaxCustom}

\* the state the runs leave behind
Page(r, kind) ==
    /\ session_state' = r.ss
    /\ presets' = r.presets
    /\ saved_from' = r.saved_from
    /\ at_filters' = r.at_filters
    /\ shown' = r.shown
    /\ final_df' = r.final_df
    /\ total_visible' = r.total_visible
    /\ dot' = r.dot
    /\ ev' = kind
    /\ UNCHANGED df

----------------------------------------------------------------------------
(* The spreadsheet of the session *)

EmptyTable == load_data(<< >>)

Epithets ==
    << "s01", "s02", "s03", "s04", "s05", "s06", "s07", "s08", "s09",
       "s10", "s11", "s12", "s13", "s14", "s15", "s16", "s17", "s18",
       "s19", "s20", "s21", "s22", "s23", "s24", "s25", "s26", "s27",
       "s28", "s29", "s30", "s31", "s32", "s33", "s34", "s35", "s36",
       "s37", "s38", "s39", "s40", "s41", "s42", "s43", "s44", "s45",
       "s46", "s47", "s48", "s49", "s50", "s51", "s52", "s53", "s54" >>

Genera == <<"Ga", "Gb", "Gc", "Gd", "Ge", "Gf">>

\* more rows than LargeTreeLimit: one species per epithet of Epithets, nine
\* to each genus of Genera
BigTable ==
    load_data(
      [k \in 1..Len(Epithets) |->
          RawRow(k - 1, <<"C9">>, <<"S9">>, <<"O9">>, <<"F9">>,
                 <<Genera[((k - 1) \div 9) + 1]>>, <<Epithets[k]>>)])

\* two genera share the epithet "a", and the last row repeats the taxon of
\* the third
RowUniverse ==
    << RawRow(0, <<"C1">>, <<"S1">>, <<"O1">>, <<"F1">>, <<"G1">>, <<"a">>),
       RawRow(1, <<"C1">>, <<"S1">>, <<"O1">>, <<"F1">>, <<"G2">>, <<"a">>),
       RawRow(2, <<"C1">>, <<"S1">>, <<"O1">>, <<"F2">>, <<"G3">>, <<"b">>),
       RawRow(3, <<"C1">>, <<"S1">>, <<"O2">>, <<"F3">>, <<"G4">>, <<"c">>),
       RawRow(4, <<"C1">>, <<"S1">>, <<"O1">>, <<"F2">>, <<"G3">>, <<"b">>) >>

SmallTable == load_data(RowUniverse)

Tables == {EmptyTable, SmallTable, BigTable}

----------------------------------------------------------------------------
(* The session: one action per user interaction, each followed by the run *)
(* of the script it starts                                                *)

Init ==
    /\ df \in Tables
    /\ presets = << >>
    /\ saved_from = << >>
    /\ ev = "none"
    /\ \E r \in {Body(Defaults, Defaults, NoEvent, << >>, << >>, "keep_valid")} :
         /\ session_state = r.ss
         /\ at_filters = r.at_filters
         /\ shown = r.shown
         /\ final_df = r.final_df
         /\ total_visible = r.total_visible
         /\ dot = r.dot

\* the user changes the "<level> search" multiselect
Select(lvl, s) ==
    /\ s \subseteq OptionsShown(lvl)
    /\ s # session_state[SelKey(lvl)]
    /\ \E r \in Runs(invalidate_tree([session_state EXCEPT ![SelKey(lvl)] = s]),
                     [kind |-> "select"]) : Page(r, "change")

\* the user ticks or unticks "Select all available"
ToggleAll(lvl) ==
    \E r \in Runs(invalidate_tree(
                    [session_state EXCEPT ![AllKey(lvl)] = ~@]),
                  [kind |-> "all"]) : Page(r, "change")

\* the user edits "Chart Title"
SetTitle(t) ==
    /\ t # session_state.chart_title
    /\ \E r \in Runs(invalidate_tree([session_state EXCEPT !.chart_title = t]),
                     [kind |-> "title"]) : Page(r, "change")

\* the user changes "Select species to highlight"
SetHighlight(h) ==
    /\ h \subseteq SpeciesShown
    /\ h # session_state.highlighted_species
    /\ \E r \in Runs(invalidate_tree(
                       [session_state EXCEPT !.highlighted_species = h]),
                     [kind |-> "highlight"]) : Page(r, "change")

\* the user changes "Taxonomic levels to show"
SetLevels(a) ==
    /\ a # session_state.active_levels
    /\ \E r \in Runs(invalidate_tree(session_state),
                     [kind |-> "levels", value |-> a]) : Page(r, "change")

\* "Reset all filters"
ResetAll ==
    \E r \in Runs(reset_all_filters_callback(session_state),
                  [kind |-> "reset"]) : Page(r, "change")

\* "Generate Scientific Tree"; the button is not on the page after the
\* contiguity error stopped the run
Generate ==
    /\ shown # "contig_error"
    /\ \E r \in Runs(session_state, [kind |-> "generate"]) : Page(r, "generate")

\* "Load" with a preset chosen
LoadPreset(name) ==
    /\ name \in DOMAIN presets
    /\ \E r \in Runs(session_state, [kind |-> "load", name |-> name]) :
          Page(r, "load")

\* "Delete" with a preset chosen
DeletePreset(name) ==
    /\ name \in DOMAIN presets
    /\ \E r \in Runs(session_state, [kind |-> "delete", name |-> name]) :
          Page(r, "other")

\* "Save Preset" with a name typed
SavePreset(name) ==
    /\ name # ""
    /\ \E r \in Runs(session_state, [kind |-> "save", name |-> name]) :
          Page(r, "other")

\* an interaction no code of the script reacts to (choosing a preset in the
\* select box, typing a preset name, Load or Delete with no preset chosen)
OtherInteraction ==
    \E r \in Runs(session_state, NoEvent) : Page(r, "other")

\* "Build anyway" in the dialog: st.rerun() follows
BuildAnyway ==
    /\ shown = "warning"
    /\ \E r \in Runs(Put(session_state, "confirmed_large_tree", TRUE), NoEvent) :
          Page(r, "build_anyway")

\* "Filter more" in the dialog: st.rerun() follows
FilterMore ==
    /\ shown = "warning"
    /\ \E r \in Runs([session_state EXCEPT !.render_requested = FALSE], NoEvent) :
          Page(r, "filter_more")

(* what the user does in the sessions explored *)
PickLevels == {"Order", "Family"}
PickValues == {{<<"O1">>}, {<<"O2">>}, {<<"F1">>}, {}}
Highlights == {{<<"G1", "a">>}, {}}
AllLevels == {"Family"}
Titles == {DefaultTitle, "Sharks"}
LevelChoices ==
    {LEVELS, <<"Genus", "Species">>, <<"Class", "Order">>,
     <<"Species", "Genus">>, << >>}
PresetNames == {"view"}

Next ==
    \/ \E lvl \in PickLevels, s \in PickValues : Select(lvl, s)
    \/ \E lvl \in AllLevels : ToggleAll(lvl)
    \/ \E t \in Titles : SetTitle(t)
    \/ \E h \in Highlights : SetHighlight(h)
    \/ \E a \in LevelChoices : SetLevels(a)
    \/ ResetAll
    \/ Generate
    \/ \E name \in PresetNames : LoadPreset(name)
    \/ \E name \in PresetNames : DeletePreset(name)
    \/ \E name \in PresetNames : SavePreset(name)
    \/ OtherInteraction
    \/ BuildAnyway
    \/ FilterMore

Spec == Init /\ [][Next]_vars

----------------------------------------------------------------------------
(* The pure functions on bounded inputs *)

MaxSelLevels == 2

\* the spreadsheet with exactly the rows of RowUniverse at the positions I
RECURSIVE RowsAt(_, _)
RowsAt(I, k) ==
    IF k > Len(RowUniverse) THEN << >>
    ELSE (IF k \in I THEN <<RowUniverse[k]>> ELSE << >>) \o RowsAt(I, k + 1)

InputTables == {load_data(RowsAt(I, 1)) : I \in SUBSET (1..Len(RowUniverse))}

\* the selection a user can hold at a level: nothing or one listed value
InputPick(lvl) ==
    CASE lvl = "Class"    -> <<"C1">>
      [] lvl = "Subclass" -> <<"S1">>
      [] lvl = "Order"    -> <<"O1">>
      [] lvl = "Family"   -> <<"F1">>
      [] lvl = "Genus"    -> <<"G1">>
      [] lvl = "Species"  -> <<"G1", "a">>

RECURSIVE WithPicks(_, _)
WithPicks(ss, L) ==
    IF L = {} THEN ss
    ELSE LET l == CHOOSE x \in L : TRUE
         IN  WithPicks([ss EXCEPT ![SelKey(l)] = {InputPick(l)}], L \ {l})

InputSessions ==
    {WithPicks(Defaults, L) :
        L \in {M \in SUBSET LevelSet : Cardinality(M) <= MaxSelLevels}}

\* the contiguous ascending runs of LEVELS
ContiguousRuns ==
    {SubSeq(LEVELS, lo, hi) : lo \in 1..Len(LEVELS), hi \in 1..Len(LEVELS)}
        \ {<< >>}

FnInit ==
    /\ df \in InputTables
    /\ \E ss \in InputSessions, a \in ContiguousRuns :
          session_state = [ss EXCEPT !.active_levels = a]
    /\ presets = << >>
    /\ shown = "input"
    /\ final_df = None
    /\ total_visible = None
    /\ dot = None
    /\ ev = "none"
    /\ at_filters = None
    /\ saved_from = << >>

\* final_df = apply_filters(df)
FnApplyFilters ==
    /\ shown = "input"
    /\ final_df' = apply_filters(session_state, df)
    /\ shown' = "filtered"
    /\ UNCHANGED <<df, session_state, presets, total_visible, dot, ev,
                   at_filters, saved_from>>

\* dot = build_horizontal_taxonomic_tree(final_df, active_levels, chart_title)
FnBuildTree ==
    /\ shown = "filtered"
    /\ dot' = build_horizontal_taxonomic_tree(session_state, final_df,
                  session_state.active_levels, session_state.chart_title)
    /\ shown' = "built"
    /\ UNCHANGED <<df, session_state, presets, final_df, total_visible, ev,
                   at_filters, saved_from>>

\* total_visible = count_visible_species(final_df, active_levels)
FnCountSpecies ==
    /\ shown = "built"
    /\ total_visible' = count_visible_species(session_state, final_df,
                            session_state.active_levels)
    /\ shown' = "counted"
    /\ UNCHANGED <<df, session_state, presets, final_df, dot, ev,
                   at_filters, saved_from>>

FnNext == FnApplyFilters \/ FnBuildTree \/ FnCountSpecies

FnSpec == FnInit /\ [][FnNext]_vars

----------------------------------------------------------------------------
(* Properties of the pure functions *)

Rows(tbl) == Range(tbl)

\* the nodes of dot at one level, as the set of their values
NodeValues(g, lvl) == {n.id[2] : n \in {m \in Range(g.nodes) : m.id[1] = lvl}}

Deepest(active_levels) == active_levels[Len(active_levels)]

\* C1: the rows apply_filters returns are rows of the table it was given,
\* with the same index and the same field values, in the same order
C1_FilterIsSubset ==
    shown # "input" =>
        /\ Rows(final_df) \subseteq Rows(df)
        /\ Len(final_df) <= Len(df)
        /\ \A j, k \in 1..Len(final_df) :
              j < k => final_df[j].index < final_df[k].index

C1_Witness ==
    /\ shown = "filtered"
    /\ final_df # << >>
    /\ Len(final_df) < Len(df)

\* C2 as stated: the deepest-level nodes are exactly the distinct values of
\* that level in the table apply_filters returned
C2_LeavesEqualFilteredValues ==
    shown \in {"built", "counted"} =>
        NodeValues(dot, Deepest(session_state.active_levels))
            = Values(final_df, Deepest(session_state.active_levels))

\* a row passes the pruning of the builder down to position n of the active
\* levels when it matches every non-empty selection of positions 2..n
Passes(ss, r, active_levels, n) ==
    \A k \in 2..n :
        LET sel == Get(ss, SelKey(active_levels[k]), {}) IN
        sel = {} \/ r[FilterColumn(active_levels[k])] \in sel

Survivors(ss, tbl, active_levels) ==
    {r \in Rows(tbl) : Passes(ss, r, active_levels, Len(active_levels))}

\* C2 amended: the deepest-level nodes are the distinct values of that level
\* among the rows of the filtered table that match the selection of every
\* active level after the first; they are among the values of the filtered
\* table, and all of them when no active level after the first is selected
C2_LeavesEqualSurvivingValues ==
    shown \in {"built", "counted"} =>
        LET a == session_state.active_levels
            leaves == NodeValues(dot, Deepest(a))
        IN  /\ leaves = {r[Deepest(a)] : r \in Survivors(session_state, final_df, a)}
            /\ leaves \subseteq Values(final_df, Deepest(a))
            /\ (\A k \in 2..Len(a) : session_state[SelKey(a[k])] = {})
                  => leaves = Values(final_df, Deepest(a))

C2_Witness ==
    /\ shown = "built"
    /\ Len(session_state.active_levels) >= 2
    /\ NodeValues(dot, Deepest(session_state.active_levels)) # {}
    /\ NodeValues(dot, Deepest(session_state.active_levels))
          # Values(final_df, Deepest(session_state.active_levels))

\* the path prefixes the builder walks: the values of a row at the first k
\* active levels, for the rows that pass the pruning down to position k
Prefix(r, active_levels, k) == [j \in 1..k |-> r[active_levels[j]]]

WalkedPrefixes(ss, tbl, active_levels) ==
    {Prefix(r, active_levels, k) :
        <<r, k>> \in {<<r, k>> \in Rows(tbl) \X (1..Len(active_levels)) :
                        Passes(ss, r, active_levels, k)}}

\* C7: the builder creates exactly one node per distinct path prefix: no
\* prefix gets two nodes and two different prefixes never share a node
C7_OneNodePerPathPrefix ==
    shown \in {"built", "counted"} =>
        LET a == session_state.active_levels
            P == WalkedPrefixes(session_state, final_df, a)
        IN  /\ Len(dot.nodes) = Cardinality(P)
            /\ \A p, q \in P :
                  p # q => NodeId(a[Len(p)], p[Len(p)]) # NodeId(a[Len(q)], q[Len(q)])

\* C8: count_visible_species returns the number of Species nodes the builder
\* creates for the same table, levels and selections, and 0 when Species is
\* not an active level
C8_CountEqualsSpeciesNodes ==
    shown = "counted" =>
        /\ total_visible = Cardinality(NodeValues(dot, "Species"))
        /\ "Species" \notin Range(session_state.active_levels)
              => total_visible = 0

----------------------------------------------------------------------------
(* Properties of the session *)

\* the active-level lists the render block may see
EmptyOrContiguous == ContiguousRuns \cup {<< >>}

\* C3: every edge of a displayed tree goes from a node of active level i to
\* a node of active level i+1, the two levels are neighbours in LEVELS, and
\* the parent value and the child value occur together in a row of the
\* table the builder was given
C3_EdgesJoinAdjacentLevels ==
    shown = "tree" =>
        \A edge \in Range(dot.edges) :
            \E i \in 1..(Len(session_state.active_levels) - 1) :
                LET parent == session_state.active_levels[i]
                    child == session_state.active_levels[i + 1]
                IN  /\ edge[1][1] = parent
                    /\ edge[2][1] = child
                    /\ LevelIndex(child) = LevelIndex(parent) + 1
                    /\ \E r \in Rows(final_df) :
                          r[parent] = edge[1][2] /\ r[child] = edge[2][2]

C3_Witness ==
    /\ shown = "tree"
    /\ session_state.active_levels = <<"Genus", "Species">>
    /\ Len(dot.edges) >= 3

\* C4: in the run that follows Load, once the pending preset is applied and
\* the filter widgets are processed, chart_title, active_levels, sel_<level>
\* and all_<level> equal what the session held when the preset was saved,
\* and pending_preset is None again
C4_LoadRestoresSavedPreset ==
    ev = "load" =>
        /\ at_filters # None
        /\ \E name \in DOMAIN presets : at_filters.snapshot = saved_from[name]
        /\ at_filters.pending_preset = None
        /\ session_state.pending_preset = None

C4_Witness ==
    /\ ev = "load"
    /\ at_filters # None
    /\ at_filters.snapshot # Snapshot(Defaults)
    /\ at_filters.pending_preset = None

\* C5: a non-empty list of active levels that is not a contiguous ascending
\* run of LEVELS stops the run at the error message, so no table is
\* filtered, counted or drawn; the render block only sees a list that is
\* empty or a contiguous run, also when a loaded preset supplied it
C5_NonContiguousLevelsAbort ==
    /\ session_state.active_levels \notin EmptyOrContiguous
          => /\ shown = "contig_error"
             /\ final_df = None /\ total_visible = None /\ dot = None
    /\ shown \in {"empty", "warning", "tree"}
          => session_state.active_levels \in EmptyOrContiguous

C5_Witness ==
    /\ shown = "contig_error"
    /\ ev = "load"
    /\ session_state.active_levels # << >>

\* C6: when a render is requested and valid and apply_filters returns an
\* empty table, the page carries a "no data" notice
C6_EmptyResultShowsNotice ==
    (/\ session_state.render_requested
     /\ session_state.tree_valid
     /\ final_df = << >>) => shown = "no_data_notice"

\* C9: after an invalidating event (a changed widget, Reset all filters, a
\* loaded preset) tree_valid and render_requested are false and nothing is
\* built; render_requested implies tree_valid; a tree or the size warning is
\* on the page only while both flags hold, and render_requested turns true
\* only in the run of "Generate Scientific Tree"
C9_InvalidationHoldsUntilGenerate ==
    /\ [](/\ ev \in {"change", "load"}
             => /\ ~session_state.render_requested
                /\ ~session_state.tree_valid
                /\ shown \in {"no_render", "contig_error"}
                /\ dot = None
          /\ session_state.render_requested => session_state.tree_valid
          /\ shown \in {"tree", "warning", "empty"}
                => session_state.render_requested /\ session_state.tree_valid)
    /\ [][(~session_state.render_requested /\ session_state.render_requested')
              => ev' = "generate"]_vars

C9_Witness ==
    /\ ev = "load"
    /\ shown = "no_render"
    /\ ~session_state.render_requested
    /\ ~session_state.tree_valid
    /\ session_state.active_levels = LEVELS

\* C10: a tree of more than LargeTreeLimit counted species is built only in
\* the run "Build anyway" starts; confirmed_large_tree is false after every
\* run that displays a tree, so any other run over the limit stops at the
\* warning; "Filter more" clears render_requested and builds nothing
C10_LargeTreeNeedsConfirmation ==
    /\ (shown = "tree" /\ total_visible > LargeTreeLimit) => ev = "build_anyway"
    /\ shown = "tree" => session_state.confirmed_large_tree = FALSE
    /\ shown = "warning"
          => /\ total_visible > LargeTreeLimit
             /\ session_state.confirmed_large_tree = FALSE
             /\ dot = None
    /\ ev = "filter_more"
          => /\ ~session_state.render_requested
             /\ shown = "no_render"
             /\ dot = None

C10_Witness ==
    /\ ev = "build_anyway"
    /\ shown = "tree"
    /\ total_visible > LargeTreeLimit
    /\ Len(dot.nodes) > LargeTreeLimit

====
